---- MODULE Spec2Model ----
(***************************************************************************)
(* gamecore.js object pooling: gamecore.Pool (pooled.js) on top of the     *)
(* keyed doubly linked list gamecore.LinkedList (src/linkedlist.js).       *)
(*                                                                         *)
(* An object reference is a positive integer; Null (0) is JavaScript's     *)
(* null/undefined.  A link node is a reference too: the first node a list   *)
(* constructs for an object is named by the object's unique id, a further  *)
(* one by the next number no node or object of the list has taken.         *)
(***************************************************************************)
EXTENDS Integers, Sequences, FiniteSets, TLC

\* ------------------------------------------------------------------ bounds
\* Callers make the pool grow (expand(n), or acquire() on an empty free list)
\* only while it holds at most MaxSize objects.
MaxSize == 3
\* The largest argument of a direct Pool.expand(n) call.
MaxExpand == 2
\* The largest initial size a pool is constructed with.
MaxInitial == 2
\* The number of objects the callers of a stand-alone list work with.
MaxListObjs == 3
\* The number of calls the callers make on a stand-alone list.
MaxListCalls == 8
\* Callers call addNode themselves only while the list has constructed
\* fewer nodes than this.
MaxListNodes == 4
\* The number of pooled classes the callers of the registry use.
NumTypes == 2
\* The number of objects, pooled and not, the callers of the registry let be
\* constructed.
MaxRegObjs == 2
\* The number of objects the callers construct themselves with "new T()".
MaxDirect == 1
\* The number of threads calling acquire() on one pool.
NumThreads == 2
\* The number of acquire() calls each thread makes.
MaxConcCalls == 1

\* ------------------------------------------------------- program constants
Null == 0

VARIABLES
    freeList,      \* Pool.freeList : LinkedList
    usedList,      \* Pool.usedList : LinkedList
    initialSize,   \* Pool.initialSize
    returnObj,     \* Pool.returnObj
    totalPooled,   \* gamecore.Pool.totalPooled (static)
    totalObjects,  \* Class.totalObjects of the pooled class
    destroyed,     \* obj.destroyed of every constructed object
    held,          \* the callers' side: objects handed out and not yet released
    op,            \* the last completed call: what was called and how it ended
    prev,          \* the call before op, kept when it was an acquire()
    scenario,      \* how far the run has followed the two-object scenario
    list,          \* a LinkedList used on its own
    lop,           \* the last completed call on list and how it ended
    pools,         \* gamecore.Pool.pools (static): class -> its Pool
    poolsMade,     \* how many Pools "new gamecore.Pool" has constructed
    classOf,       \* obj.Class of every constructed object
    direct,        \* the objects the callers constructed with "new T()"
    rop,           \* the last call on the registry or on a pooled object
    pend,          \* the obj.release() whose onRelease() is running
    pc,            \* per thread: the statements of its acquire() done so far
    got,           \* per thread: what its acquire() calls returned and threw
    atomic         \* whether the threads run acquire() under a lock

poolVars == <<freeList, usedList, initialSize, returnObj, totalPooled,
              totalObjects, destroyed, held, op, prev, scenario>>

listVars == <<list, lop>>

regVars == <<pools, poolsMade, classOf, direct, rop, pend>>

concVars == <<pc, got, atomic>>

vars == <<poolVars, listVars, regVars, concVars>>

\* =========================================================== gamecore.Base
\* obj.getUniqueId(): Class.fullName + ':' + objectId, distinct per object.
getUniqueId(obj) == obj

\* ====================================================== gamecore.Hashtable
\* Hashtable.get(key): the entry stored under key, named by its key; null
\* when there is none.
HashGet(map, key) == IF key \in DOMAIN map THEN key ELSE Null

\* Hashtable.put(key, value): stores value under key, replacing any old one.
HashPut(map, key, value) ==
    [k \in (DOMAIN map) \cup {key} |-> IF k = key THEN value ELSE map[k]]

\* ===================================================== gamecore.LinkedList
\* new gamecore.LinkedList(): first, last null, count 0, an empty node map.
\* objToNodeMap holds, under the id of an object, the reference of the node
\* cached for it.  nodes holds the link nodes constructed for the list so far
\* ("new gamecore.LinkedNode()" in addNode), each under its reference, and
\* made counts them; the code keeps neither as a field: they are the nodes
\* on the heap that the list's fields and the nodes' links refer to.
NewList ==
    [first |-> Null, last |-> Null, count |-> 0, objToNodeMap |-> <<>>,
     nodes |-> <<>>, made |-> 0]

\* LinkedList.getNode(obj)
getNode(l, obj) ==
    LET entry == HashGet(l.objToNodeMap, getUniqueId(obj))
    IN  IF entry = Null THEN Null ELSE l.objToNodeMap[entry]

\* The reference of the node "new gamecore.LinkedNode()" constructs next
\* for obj.
NewNode(l, obj) ==
    IF getUniqueId(obj) \notin DOMAIN l.nodes THEN getUniqueId(obj)
    ELSE 1 + CHOOSE n \in DOMAIN l.nodes : \A k \in DOMAIN l.nodes : k <= n

\* LinkedList.addNode(obj): a fresh node for obj, cached under its id in the
\* place of the node cached before, if any; that one stays where the list
\* has linked it.
addNode(l, obj) ==
    LET node == NewNode(l, obj)
    IN  [l EXCEPT !.nodes =
            HashPut(@, node,
                    [obj |-> obj, prevLinked |-> Null, nextLinked |-> Null,
                     free |-> FALSE]),
                  !.objToNodeMap = HashPut(@, getUniqueId(obj), node),
                  !.made = @ + 1]

\* The "reusing a node, so we clean it up" branch of LinkedList.add.
reuseNode(l, node, obj) ==
    [l EXCEPT !.nodes[node] =
        [obj |-> obj, prevLinked |-> Null, nextLinked |-> Null, free |-> FALSE]]

\* The append that forgets "this.count++".
appendNode_noCount(l, node) ==
    IF l.first = Null
    THEN [list |-> [l EXCEPT !.first = node, !.last = node,
                             !.nodes[node].nextLinked = Null,
                             !.nodes[node].prevLinked = Null],
          threw |-> "none"]
    ELSE IF l.last = Null
    THEN [list |-> l, threw |-> "nolast"]
    ELSE LET m1 == [l.nodes EXCEPT ![l.last].nextLinked = node]
             m2 == [m1 EXCEPT ![node].prevLinked = l.last]
             m3 == [m2 EXCEPT ![node].nextLinked = Null]
         IN  [list |-> [l EXCEPT !.nodes = m3, !.last = node],
              threw |-> "none"]

\* The "append this obj to the end of the list" part of LinkedList.add.
appendNode(l, node) ==
    IF l.first = Null
    THEN [list |-> [l EXCEPT !.first = node, !.last = node,
                             !.nodes[node].nextLinked = Null,
                             !.nodes[node].prevLinked = Null,
                             !.count = @ + 1],
          threw |-> "none"]
    ELSE IF l.last = Null
    THEN [list |-> l, threw |-> "nolast"]
    ELSE LET m1 == [l.nodes EXCEPT ![l.last].nextLinked = node]
             m2 == [m1 EXCEPT ![node].prevLinked = l.last]
             m3 == [m2 EXCEPT ![node].nextLinked = Null]
         IN  [list |-> [l EXCEPT !.nodes = m3, !.last = node,
                                 !.count = @ + 1],
              threw |-> "none"]

\* add() without the "if (node.free == false) throw" check.
add_noDupCheck(l, obj) ==
    LET node == getNode(l, obj)
    IN  IF node = Null
        THEN appendNode(addNode(l, obj), NewNode(l, obj))
        ELSE appendNode(reuseNode(l, node, obj), node)

\* LinkedList.add(obj): the list afterwards and the exception thrown, if any.
add(l, obj) ==
    LET node == getNode(l, obj)
    IN  IF node = Null
        THEN appendNode(addNode(l, obj), NewNode(l, obj))
        ELSE IF l.nodes[node].free = FALSE
        THEN [list |-> l, threw |-> "twice"]
        ELSE appendNode(reuseNode(l, node, obj), node)

\* LinkedList.has(obj)
has(l, obj) ==
    LET node == getNode(l, obj)
    IN  ~(node = Null \/ l.nodes[node].free = TRUE)

\* remove() without "|| node.free == true": a freed node is unlinked again.
remove_noFreeCheck(l, obj) ==
    LET node == getNode(l, obj)
    IN  IF node = Null
        THEN [list |-> l, ret |-> FALSE]
        ELSE LET m0 == l.nodes
                 m1 == IF m0[node].prevLinked # Null
                       THEN [m0 EXCEPT ![m0[node].prevLinked].nextLinked =
                                            m0[node].nextLinked]
                       ELSE m0
                 m2 == IF m1[node].nextLinked # Null
                       THEN [m1 EXCEPT ![m1[node].nextLinked].prevLinked =
                                            m1[node].prevLinked]
                       ELSE m1
                 f  == IF m2[node].prevLinked = Null
                       THEN m2[node].nextLinked ELSE l.first
                 la == IF m2[node].nextLinked = Null
                       THEN m2[node].prevLinked ELSE l.last
                 m3 == [m2 EXCEPT ![node].free = TRUE,
                                  ![node].prevLinked = Null,
                                  ![node].nextLinked = Null]
             IN  [list |-> [first |-> f, last |-> la, count |-> l.count - 1,
                            objToNodeMap |-> l.objToNodeMap,
                            nodes |-> m3, made |-> l.made],
                  ret |-> TRUE]

\* remove() that does not tie the predecessor to the successor.
remove_noPrevRelink(l, obj) ==
    LET node == getNode(l, obj)
    IN  IF node = Null \/ l.nodes[node].free = TRUE
        THEN [list |-> l, ret |-> FALSE]
        ELSE LET m0 == l.nodes
                 m2 == IF m0[node].nextLinked # Null
                       THEN [m0 EXCEPT ![m0[node].nextLinked].prevLinked =
                                            m0[node].prevLinked]
                       ELSE m0
                 f  == IF m2[node].prevLinked = Null
                       THEN m2[node].nextLinked ELSE l.first
                 la == IF m2[node].nextLinked = Null
                       THEN m2[node].prevLinked ELSE l.last
                 m3 == [m2 EXCEPT ![node].free = TRUE,
                                  ![node].prevLinked = Null,
                                  ![node].nextLinked = Null]
             IN  [list |-> [first |-> f, last |-> la, count |-> l.count - 1,
                            objToNodeMap |-> l.objToNodeMap,
                            nodes |-> m3, made |-> l.made],
                  ret |-> TRUE]

\* LinkedList.remove(obj): the list afterwards and the value returned.
remove(l, obj) ==
    LET node == getNode(l, obj)
    IN  IF node = Null \/ l.nodes[node].free = TRUE
        THEN [list |-> l, ret |-> FALSE]
        ELSE LET m0 == l.nodes
                 m1 == IF m0[node].prevLinked # Null
                       THEN [m0 EXCEPT ![m0[node].prevLinked].nextLinked =
                                            m0[node].nextLinked]
                       ELSE m0
                 m2 == IF m1[node].nextLinked # Null
                       THEN [m1 EXCEPT ![m1[node].nextLinked].prevLinked =
                                            m1[node].prevLinked]
                       ELSE m1
                 f  == IF m2[node].prevLinked = Null
                       THEN m2[node].nextLinked ELSE l.first
                 la == IF m2[node].nextLinked = Null
                       THEN m2[node].prevLinked ELSE l.last
                 m3 == [m2 EXCEPT ![node].free = TRUE,
                                  ![node].prevLinked = Null,
                                  ![node].nextLinked = Null]
             IN  [list |-> [first |-> f, last |-> la, count |-> l.count - 1,
                            objToNodeMap |-> l.objToNodeMap,
                            nodes |-> m3, made |-> l.made],
                  ret |-> TRUE]

\* The iteration "node = list.first; while (node) ... node = node.next()":
\* the objects visited, in order.  fuel cuts a cyclic list short.
RECURSIVE Walk(_, _, _)
Walk(map, node, fuel) ==
    IF node = Null \/ fuel = 0 THEN <<>>
    ELSE <<map[node].obj>> \o Walk(map, map[node].nextLinked, fuel - 1)

Traverse(l) == Walk(l.nodes, l.first, Cardinality(DOMAIN l.nodes) + 1)

Range(s) == {s[i] : i \in DOMAIN s}

\* Whether the iteration from l.first never reaches null.
Cyclic(l) ==
    LET n == Cardinality(DOMAIN l.nodes)
        RECURSIVE End(_, _)
        End(node, fuel) ==
            IF node = Null THEN Null
            ELSE IF fuel = 0 THEN node
            ELSE End(l.nodes[node].nextLinked, fuel - 1)
    IN  End(l.first, n) # Null

\* LinkedList.moveUp(obj): the list afterwards and the exception thrown, if
\* any.  Its first statement, dump(), iterates from first and does not return
\* on a cyclic list ("hang").
moveUp(l, obj) ==
    LET c == getNode(l, obj)
        m0 == l.nodes
    IN  IF Cyclic(l) THEN [list |-> l, threw |-> "hang"]
        ELSE IF c = Null THEN [list |-> l, threw |-> "notinlist"]
        ELSE IF m0[c].prevLinked = Null THEN [list |-> l, threw |-> "none"]
        ELSE LET b  == m0[c].prevLinked
                 a  == m0[b].prevLinked
                 la == IF c = l.last THEN b ELSE l.last
                 oldCNext == m0[c].nextLinked
                 m1 == IF a # Null THEN [m0 EXCEPT ![a].nextLinked = c] ELSE m0
                 m2 == [m1 EXCEPT ![c].nextLinked = b]
                 m3 == [m2 EXCEPT ![c].prevLinked = m2[b].prevLinked]
                 m4 == [m3 EXCEPT ![b].nextLinked = oldCNext]
                 m5 == [m4 EXCEPT ![b].prevLinked = c]
                 f  == IF l.first = b THEN c ELSE l.first
             IN  [list |-> [l EXCEPT !.nodes = m5, !.first = f,
                                     !.last = la],
                  threw |-> "none"]

\* LinkedList.moveDown(obj)
moveDown(l, obj) ==
    LET b == getNode(l, obj)
    IN  IF b = Null THEN [list |-> l, threw |-> "notinlist"]
        ELSE IF l.nodes[b].nextLinked = Null
        THEN [list |-> l, threw |-> "none"]
        ELSE LET c == l.nodes[b].nextLinked
                 r == moveUp(l, l.nodes[c].obj)
             IN  IF r.threw # "none" THEN r
                 ELSE [list |-> IF r.list.last = c
                                THEN [r.list EXCEPT !.last = b] ELSE r.list,
                       threw |-> "none"]

\* The nodes the loop of clear() visits, from node on.
RECURSIVE Swept(_, _, _)
Swept(map, node, fuel) ==
    IF node = Null \/ fuel = 0 THEN {}
    ELSE {node} \cup Swept(map, map[node].nextLinked, fuel - 1)

\* LinkedList.clear(); its loop does not end on a cyclic list ("hang").
clear(l) ==
    IF Cyclic(l) THEN [list |-> l, threw |-> "hang"]
    ELSE LET swept == Swept(l.nodes, l.first,
                            Cardinality(DOMAIN l.nodes))
         IN  [list |-> [l EXCEPT
                  !.nodes = [k \in DOMAIN @ |->
                      IF k \in swept THEN [@[k] EXCEPT !.free = TRUE]
                      ELSE @[k]],
                  !.first = Null, !.count = 0],
              threw |-> "none"]

\* The comparators compare(a, b) callers sort with: ascending ("asc") and
\* descending ("desc") object number; negative when a goes before b.
compare(cmp, a, b) == IF cmp = "asc" THEN a - b ELSE b - a

\* Array.prototype.sort(compare) of an array of distinct elements under a
\* total order: x is put before the first element it must precede.
RECURSIVE ArraySort(_, _)
ArraySort(cmp, arr) ==
    IF arr = <<>> THEN <<>>
    ELSE LET x    == arr[1]
             rest == ArraySort(cmp, Tail(arr))
             less == SelectSeq(rest, LAMBDA y : compare(cmp, y, x) < 0)
             more == SelectSeq(rest, LAMBDA y : ~(compare(cmp, y, x) < 0))
         IN  less \o <<x>> \o more

\* The loop "for (i ...) this.add(sortArray[i])" of sort, from index i on.
RECURSIVE AddAll(_, _, _)
AddAll(l, arr, i) ==
    IF i > Len(arr) THEN [list |-> l, threw |-> "none"]
    ELSE LET r == add(l, arr[i])
         IN  IF r.threw # "none" THEN r ELSE AddAll(r.list, arr, i + 1)

\* LinkedList.sort(compare); collecting the objects does not end on a cyclic
\* list ("hang").
sort(l, cmp) ==
    IF Cyclic(l) THEN [list |-> l, threw |-> "hang"]
    ELSE AddAll(clear(l).list, ArraySort(cmp, Traverse(l)), 1)

\* =========================================================== gamecore.Pool
\* Rounding down instead: Math.floor(n / d).
MathRound_floor(n, d) == n \div d

\* Math.round(n / d) for n >= 0, d > 0: the nearest integer, halves upwards.
MathRound(n, d) == (2 * n + d) \div (2 * d)

\* Pool.size()
size(s) == s.freeList.count + s.usedList.count

\* "new this.classType()": setup() takes objectId = Class.totalObjects++ and
\* the instance starts with the prototype's destroyed: false.
construct(s) ==
    [s EXCEPT !.totalObjects = @ + 1,
              !.destroyed = HashPut(@, s.totalObjects + 1, FALSE)]

\* The loop that stops one short: "i < howMany - 1".
RECURSIVE expandLoop_stopsShort(_, _)
expandLoop_stopsShort(s, left) ==
    IF left <= 1 THEN s
    ELSE LET c == construct(s)
             r == add(c.freeList, c.totalObjects)
         IN  IF r.threw # "none"
             THEN [c EXCEPT !.freeList = r.list, !.threw = r.threw]
             ELSE expandLoop_stopsShort([c EXCEPT !.freeList = r.list], left - 1)

\* The loop of Pool.expand: the iterations still to run.
RECURSIVE expandLoop(_, _)
expandLoop(s, left) ==
    IF left = 0 THEN s
    ELSE LET c == construct(s)
             r == add(c.freeList, c.totalObjects)
         IN  IF r.threw # "none"
             THEN [c EXCEPT !.freeList = r.list, !.threw = r.threw]
             ELSE expandLoop([c EXCEPT !.freeList = r.list], left - 1)

\* expand() without "gamecore.Pool.totalPooled += howMany".
expand_noTotal(s, howMany) ==
    expandLoop([s EXCEPT !.expands = Append(@, howMany)], howMany)

\* Pool.expand(howMany)
expand(s, howMany) ==
    expandLoop([s EXCEPT !.totalPooled = @ + howMany,
                         !.expands = Append(@, howMany)], howMany)

\* The growth without its minimum of 1.
grow_noMinimum(s) == MathRound(size(s), 5)

\* "expand by 20%, minimum 1": Math.round(this.size() / 5) + 1
grow(s) == MathRound(size(s), 5) + 1

\* The handout that forgets "this.usedList.add(this.returnObj)".
handOut_noUsedAdd(s) ==
    IF s.freeList.first = Null THEN [s EXCEPT !.threw = "nullfirst"]
    ELSE LET o == s.freeList.nodes[s.freeList.first].obj
         IN  [s EXCEPT !.returnObj = o,
                       !.freeList = remove(s.freeList, o).list,
                       !.destroyed[o] = FALSE,
                       !.ret = o]

\* Handing out the object at the tail of the free list instead of its head.
handOut_takesLast(s) ==
    IF s.freeList.first = Null THEN [s EXCEPT !.threw = "nullfirst"]
    ELSE LET o  == s.freeList.nodes[s.freeList.last].obj
             s2 == [s EXCEPT !.returnObj = o,
                             !.freeList = remove(s.freeList, o).list,
                             !.destroyed[o] = FALSE]
             r  == add(s2.usedList, o)
         IN  IF r.threw # "none"
             THEN [s2 EXCEPT !.threw = r.threw]
             ELSE [s2 EXCEPT !.usedList = r.list, !.ret = o]

\* Handing out without "this.returnObj.destroyed = false".
handOut_keepsFlag(s) ==
    IF s.freeList.first = Null THEN [s EXCEPT !.threw = "nullfirst"]
    ELSE LET o  == s.freeList.nodes[s.freeList.first].obj
             s2 == [s EXCEPT !.returnObj = o,
                             !.freeList = remove(s.freeList, o).list]
             r  == add(s2.usedList, o)
         IN  IF r.threw # "none"
             THEN [s2 EXCEPT !.threw = r.threw]
             ELSE [s2 EXCEPT !.usedList = r.list, !.ret = o]

\* Pool.acquire() from "this.returnObj = this.freeList.first.obj" on: reading
\* .obj of a null first is a TypeError ("nullfirst").
handOut(s) ==
    IF s.freeList.first = Null THEN [s EXCEPT !.threw = "nullfirst"]
    ELSE LET o  == s.freeList.nodes[s.freeList.first].obj
             s2 == [s EXCEPT !.returnObj = o,
                             !.freeList = remove(s.freeList, o).list,
                             !.destroyed[o] = FALSE]
             r  == add(s2.usedList, o)
         IN  IF r.threw # "none"
             THEN [s2 EXCEPT !.threw = r.threw]
             ELSE [s2 EXCEPT !.usedList = r.list, !.ret = o]

\* acquire() as its comment describes it: "If no free objects are available
\* it returns the oldest from the used pool."
acquire_oldestUsed(s) ==
    IF s.freeList.first = Null /\ s.usedList.first # Null
    THEN LET o == s.usedList.nodes[s.usedList.first].obj
         IN  [s EXCEPT !.returnObj = o,
                       !.destroyed[o] = FALSE,
                       !.usedList = add(remove(s.usedList, o).list, o).list,
                       !.ret = o]
    ELSE LET s1 == IF s.freeList.first = Null THEN expand(s, grow(s)) ELSE s
         IN  IF s1.threw # "none" THEN s1 ELSE handOut(s1)

\* Pool.acquire()
acquire(s) ==
    LET s1 == IF s.freeList.first = Null THEN expand(s, grow(s)) ELSE s
    IN  IF s1.threw # "none" THEN s1 ELSE handOut(s1)

\* release() that leaves the object on the used list.
release_keepsUsed(s, obj) ==
    LET r == add(s.freeList, obj)
    IN  IF r.threw # "none"
        THEN [s EXCEPT !.threw = r.threw]
        ELSE [s EXCEPT !.freeList = r.list, !.destroyed[obj] = TRUE]

\* release() that sets obj.destroyed before it adds obj to the free list.
release_flagsFirst(s, obj) ==
    LET s1 == [s EXCEPT !.destroyed[obj] = TRUE]
        r  == add(s1.freeList, obj)
    IN  IF r.threw # "none"
        THEN [s1 EXCEPT !.threw = r.threw]
        ELSE [s1 EXCEPT !.freeList = r.list,
                        !.usedList = remove(s1.usedList, obj).list]

\* Pool.release(obj)
release(s, obj) ==
    LET r == add(s.freeList, obj)
    IN  IF r.threw # "none"
        THEN [s EXCEPT !.threw = r.threw]
        ELSE [s EXCEPT !.freeList = r.list,
                       !.usedList = remove(s.usedList, obj).list,
                       !.destroyed[obj] = TRUE]

\* Pool.init(classType, initial), after "new gamecore.Pool(...)".
init(initial) ==
    expand([freeList |-> NewList, usedList |-> NewList, returnObj |-> Null,
            totalPooled |-> 0, totalObjects |-> 0, destroyed |-> <<>>,
            threw |-> "none", expands |-> <<>>, ret |-> Null], initial)

\* -------------------------------- Pool.acquire(), statement by statement
\* "if (this.freeList.first == null) this.expand(...)"
stmtCheck(s) == IF s.freeList.first = Null THEN expand(s, grow(s)) ELSE s

\* "this.returnObj = this.freeList.first.obj"
stmtRead(s) ==
    IF s.freeList.first = Null THEN [s EXCEPT !.threw = "nullfirst"]
    ELSE [s EXCEPT !.returnObj = s.freeList.nodes[s.freeList.first].obj]

\* The statement left out: the object stays on the free list.
stmtRemove_skipped(s) == s

\* "this.freeList.remove(this.returnObj)"
stmtRemove(s) == [s EXCEPT !.freeList = remove(@, s.returnObj).list]

\* "this.returnObj.destroyed = false"
stmtFlag(s) == [s EXCEPT !.destroyed[s.returnObj] = FALSE]

\* "this.usedList.add(this.returnObj)"
stmtAddUsed(s) ==
    LET r == add(s.usedList, s.returnObj)
    IN  IF r.threw # "none" THEN [s EXCEPT !.threw = r.threw]
        ELSE [s EXCEPT !.usedList = r.list]

\* "return this.returnObj"
stmtReturn(s) == [s EXCEPT !.ret = s.returnObj]

\* ============================================= gamecore.Pool (the statics)
INITIAL_POOL_SIZE == 1

\* The Pool p together with the static counter and the heap of g: what the
\* instance methods of p work on.
poolView(g, p) ==
    [freeList |-> p.freeList, usedList |-> p.usedList,
     returnObj |-> p.returnObj, totalPooled |-> g.totalPooled,
     totalObjects |-> g.totalObjects, destroyed |-> g.destroyed,
     threw |-> "none", expands |-> <<>>, ret |-> Null]

\* "new gamecore.Pool(classType, initial)": Pool.init on two new lists.
newPool(g, initial) ==
    expand(poolView(g, [freeList |-> NewList, usedList |-> NewList,
                        returnObj |-> Null]), initial)

\* g after the Pool of class t, the id-th Pool constructed, has run an
\* instance method that ended as s: the objects s constructed are of class t.
stored(g, t, id, initial, s) ==
    [g EXCEPT
        !.pools = HashPut(@, t,
            [id |-> id, classType |-> t, initialSize |-> initial,
             freeList |-> s.freeList, usedList |-> s.usedList,
             returnObj |-> s.returnObj]),
        !.totalPooled = s.totalPooled,
        !.totalObjects = s.totalObjects,
        !.destroyed = s.destroyed,
        !.classOf = [o \in 1..s.totalObjects |->
                        IF o <= g.totalObjects THEN g.classOf[o] ELSE t],
        !.threw = s.threw,
        !.ret = s.ret,
        !.expands = @ \o s.expands]

\* A Pool constructed and registered for class t.
registered(g, t) ==
    [stored(g, t, g.poolsMade + 1, INITIAL_POOL_SIZE,
            newPool(g, INITIAL_POOL_SIZE))
        EXCEPT !.poolsMade = @ + 1, !.made = TRUE]

\* The lookup without "if (pool == undefined)": a new Pool on every call.
poolFor_alwaysNew(g, t) == registered(g, t)

\* Static acquire up to "return pool.acquire()": the Pool of class t looked
\* up, constructed and registered when there is none.
poolFor(g, t) ==
    IF HashGet(g.pools, t) = Null THEN registered(g, t) ELSE g

\* gamecore.Pool.acquire(classType), which Pooled.create() calls.
staticAcquire(g, t) ==
    LET g1 == poolFor(g, t)
        p  == g1.pools[t]
    IN  stored(g1, t, p.id, p.initialSize, acquire(poolView(g1, p)))

\* Static release that returns silently when there is no pool.
staticRelease_silent(g, obj) ==
    LET t == g.classOf[obj]
    IN  IF HashGet(g.pools, t) = Null THEN g
        ELSE LET p == g.pools[t]
             IN  stored(g, t, p.id, p.initialSize,
                        release(poolView(g, p), obj))

\* Static release that hands the object to the first registered pool,
\* whatever its class.
staticRelease_firstPool(g, obj) ==
    IF DOMAIN g.pools = {} THEN [g EXCEPT !.threw = "nopool"]
    ELSE LET t == CHOOSE t \in DOMAIN g.pools :
                      \A u \in DOMAIN g.pools : t <= u
             p == g.pools[t]
         IN  stored(g, t, p.id, p.initialSize, release(poolView(g, p), obj))

\* gamecore.Pool.release(pooledObj)
staticRelease(g, obj) ==
    LET t == g.classOf[obj]
    IN  IF HashGet(g.pools, t) = Null THEN [g EXCEPT !.threw = "nopool"]
        ELSE LET p == g.pools[t]
             IN  stored(g, t, p.id, p.initialSize,
                        release(poolView(g, p), obj))

\* ========================================================= gamecore.Pooled
\* "new T()" of a class T derived from gamecore.Pooled, by a caller.
newPooled(g, t) ==
    [g EXCEPT !.totalObjects = @ + 1,
              !.destroyed = HashPut(@, g.totalObjects + 1, FALSE),
              !.classOf = HashPut(@, g.totalObjects + 1, t),
              !.ret = g.totalObjects + 1]

\* The body of release() the other way round.
PooledRelease_handsBackFirst == <<"Pool.release", "onRelease">>

\* The statements of Pooled.release(), in order.
PooledRelease == <<"onRelease", "Pool.release">>

\* obj.release() from its statement i on, up to the next call of
\* onRelease() (at: the statement that is running) or to its end (at = 0).
RECURSIVE instRelease(_, _, _)
instRelease(g, obj, i) ==
    IF i > Len(PooledRelease) \/ g.threw # "none" THEN [g |-> g, at |-> 0]
    ELSE IF PooledRelease[i] = "onRelease"
    THEN [g |-> [g EXCEPT !.hooks = @ + 1], at |-> i]
    ELSE instRelease([staticRelease(g, obj) EXCEPT !.handed = @ + 1],
                     obj, i + 1)

\* ------------------------------------------------------------ the machine
\* The pool and its objects as a call finds them.
Cur == [freeList |-> freeList, usedList |-> usedList, returnObj |-> returnObj,
        totalPooled |-> totalPooled, totalObjects |-> totalObjects,
        destroyed |-> destroyed, threw |-> "none", expands |-> <<>>,
        ret |-> Null]

\* The record of a call: its name and argument, what it found (the two counts,
\* whether freeList.first was null), and of its outcome s the value returned,
\* the exception thrown and the arguments of the expand calls it made.
\* returned is the set of objects that release() has handed back and that
\* acquire() has not handed out again since.
Call(name, arg, s) ==
    [name |-> name, arg |-> arg, ret |-> s.ret, threw |-> s.threw,
     expands |-> s.expands, preFree |-> freeList.count,
     preUsed |-> usedList.count, preEmpty |-> (freeList.first = Null),
     returned |-> IF name = "release" /\ s.threw = "none"
                  THEN op.returned \cup {arg}
                  ELSE IF name = "acquire" /\ s.threw = "none"
                  THEN op.returned \ {s.ret}
                  ELSE op.returned]

NoCall == [name |-> "none", arg |-> 0, ret |-> Null, threw |-> "none",
           expands |-> <<>>, preFree |-> 0, preUsed |-> 0, preEmpty |-> TRUE,
           returned |-> {}]

\* The state a call leaves behind.
Becomes(s) ==
    /\ freeList' = s.freeList
    /\ usedList' = s.usedList
    /\ returnObj' = s.returnObj
    /\ totalPooled' = s.totalPooled
    /\ totalObjects' = s.totalObjects
    /\ destroyed' = s.destroyed

\* The scenario "fresh pool of initial size 1; A = acquire(); B = acquire();
\* release(A); release(B)": step counts the calls made so far, and is -1 once
\* the run has made any other call.
OffScenario == [step |-> -1, A |-> Null, B |-> Null]

Follow(call) ==
    IF scenario.step = 0 /\ call.name = "acquire"
    THEN [step |-> 1, A |-> call.ret, B |-> Null]
    ELSE IF scenario.step = 1 /\ call.name = "acquire"
    THEN [scenario EXCEPT !.step = 2, !.B = call.ret]
    ELSE IF scenario.step = 2 /\ call.name = "release" /\ call.arg = scenario.A
    THEN [scenario EXCEPT !.step = 3]
    ELSE IF scenario.step = 3 /\ call.name = "release" /\ call.arg = scenario.B
    THEN [scenario EXCEPT !.step = 4]
    ELSE OffScenario

\* The record of a call on the registry or on a pooled object: hooks and
\* handed count the runs of onRelease() and the calls of Pool.release(obj)
\* it has made so far, inUse says whether its object was on the used list of
\* its class's pool when the call began.
NoRegCall ==
    [name |-> "none", arg |-> 0, threw |-> "none", ret |-> Null,
     made |-> FALSE, expands |-> <<>>, hooks |-> 0, handed |-> 0,
     inUse |-> FALSE]

\* No obj.release() is under way.
NoRelease == [obj |-> Null, at |-> 0]

\* The record of a call on the stand-alone list.
NoListCall ==
    [name |-> "none", arg |-> 0, threw |-> "none", ret |-> FALSE, n |-> 0,
     found |-> NewList, ever |-> {}]

\* No stand-alone list is in use.
ListIdle == list = NewList /\ lop = NoListCall

\* No pool is in use.
PoolIdle ==
    /\ freeList = NewList /\ usedList = NewList
    /\ initialSize = 0 /\ returnObj = Null
    /\ totalPooled = 0 /\ totalObjects = 0 /\ destroyed = <<>>
    /\ held = {} /\ op = NoCall /\ prev = NoCall /\ scenario = OffScenario

\* The registry holds no pool and no call has been made on it.
RegIdle ==
    /\ pools = <<>> /\ poolsMade = 0
    /\ classOf = <<>> /\ direct = {}
    /\ rop = NoRegCall /\ pend = NoRelease

\* The threads calling acquire().
Threads == 1..NumThreads

\* What a thread has got before its first call.
NoneGot == [rets |-> <<>>, threw |-> "none", calls |-> 0]

\* No thread has called acquire().
ConcIdle ==
    /\ pc = [th \in Threads |-> 0]
    /\ got = [th \in Threads |-> NoneGot]
    /\ atomic = TRUE

Init ==
    /\ ListIdle /\ RegIdle /\ ConcIdle
    /\ \E initial \in 0..MaxInitial :
        LET s == init(initial)
        IN  /\ freeList = s.freeList
            /\ usedList = s.usedList
            /\ returnObj = s.returnObj
            /\ totalPooled = s.totalPooled
            /\ totalObjects = s.totalObjects
            /\ destroyed = s.destroyed
            /\ initialSize = initial
            /\ held = {}
            /\ op = [NoCall EXCEPT !.name = "init", !.arg = initial,
                                   !.threw = s.threw, !.expands = s.expands]
            /\ prev = NoCall
            /\ scenario = IF initial = 1
                          THEN [step |-> 0, A |-> Null, B |-> Null]
                          ELSE OffScenario

\* What every call does to the record of calls.
Noted(call) ==
    /\ op' = call
    /\ prev' = IF op.name = "acquire" THEN op ELSE NoCall
    /\ scenario' = Follow(call)

\* A caller calls pool.expand(n).
Expand(n) ==
    /\ size(Cur) + n <= MaxSize
    /\ LET s == expand(Cur, n)
       IN  /\ Becomes(s)
           /\ Noted(Call("expand", n, s))
    /\ UNCHANGED <<initialSize, held, listVars, regVars, concVars>>

\* A caller calls pool.acquire().
Acquire ==
    /\ freeList.first = Null => size(Cur) <= MaxSize
    /\ LET s == acquire(Cur)
       IN  /\ Becomes(s)
           /\ Noted(Call("acquire", 0, s))
           /\ held' = IF s.threw = "none" THEN held \cup {s.ret} ELSE held
    /\ UNCHANGED <<initialSize, listVars, regVars, concVars>>

\* A caller calls pool.release(obj) with an object this pool constructed.
Release(obj) ==
    /\ LET s == release(Cur, obj)
       IN  /\ Becomes(s)
           /\ Noted(Call("release", obj, s))
           /\ held' = IF s.threw = "none" THEN held \ {obj} ELSE held
    /\ UNCHANGED <<initialSize, listVars, regVars, concVars>>

Next ==
    \/ \E n \in 0..MaxExpand : Expand(n)
    \/ Acquire
    \/ \E obj \in 1..totalObjects : Release(obj)

Spec == Init /\ [][Next]_vars

\* ------------------------------------------- the machine of a list alone
\* The objects the callers of the list hold.
ListObjs == 1..MaxListObjs

\* The state a call on the list leaves behind, and the record of the call.
ListBecomes(name, arg, l, threw, ret) ==
    /\ lop.n < MaxListCalls
    /\ lop.threw # "hang"
    /\ list' = l
    /\ lop' = [name |-> name, arg |-> arg, threw |-> threw, ret |-> ret,
               n |-> lop.n + 1,
               found |-> IF name = "add" /\ threw = "none" THEN list
                         ELSE NewList,
               ever |-> IF name = "add" /\ threw = "none"
                        THEN lop.ever \cup {arg} ELSE lop.ever]
    /\ UNCHANGED <<poolVars, regVars, concVars>>

ListInit == PoolIdle /\ ListIdle /\ RegIdle /\ ConcIdle

\* A caller calls list.add(obj).
ListAdd(obj) ==
    LET r == add(list, obj) IN ListBecomes("add", obj, r.list, r.threw, FALSE)

\* A caller calls list.remove(obj).
ListRemove(obj) ==
    LET r == remove(list, obj)
    IN  ListBecomes("remove", obj, r.list, "none", r.ret)

\* A caller calls list.moveUp(obj).
ListMoveUp(obj) ==
    LET r == moveUp(list, obj)
    IN  ListBecomes("moveUp", obj, r.list, r.threw, FALSE)

\* A caller calls list.moveDown(obj).
ListMoveDown(obj) ==
    LET r == moveDown(list, obj)
    IN  ListBecomes("moveDown", obj, r.list, r.threw, FALSE)

\* A caller calls list.sort(compare).
ListSort(cmp) ==
    LET r == sort(list, cmp)
    IN  ListBecomes("sort", cmp, r.list, r.threw, FALSE)

\* A caller calls list.clear().
ListClear ==
    LET r == clear(list) IN ListBecomes("clear", 0, r.list, r.threw, FALSE)

ListNext ==
    \/ \E obj \in ListObjs : ListAdd(obj)
    \/ \E obj \in ListObjs : ListRemove(obj)
    \/ \E obj \in ListObjs : ListMoveUp(obj)
    \/ \E obj \in ListObjs : ListMoveDown(obj)
    \/ \E cmp \in {"asc", "desc"} : ListSort(cmp)
    \/ ListClear

SpecList == ListInit /\ [][ListNext]_vars

\* The same machine with callers that do more: one holds one more object,
\* NewObj, and gives it to list.add(obj) once, at any time: before, between
\* or after the calls of the others; and callers call list.addNode(obj).
NewObj == MaxListObjs + 1

ListAddNew ==
    /\ getNode(list, NewObj) = Null
    /\ lop.n <= MaxListCalls
    /\ lop.threw # "hang"
    /\ LET r == add(list, NewObj)
       IN  /\ list' = r.list
           /\ lop' = [name |-> "add", arg |-> NewObj, threw |-> r.threw,
                      ret |-> FALSE, n |-> lop.n + 1,
                      found |-> IF r.threw = "none" THEN list ELSE NewList,
                      ever |-> IF r.threw = "none"
                               THEN lop.ever \cup {NewObj} ELSE lop.ever]
    /\ UNCHANGED <<poolVars, regVars, concVars>>

\* A caller calls list.addNode(obj) itself ("typically only used internally
\* unless you're doing something funky"), while the list has constructed
\* fewer than MaxListNodes nodes.
ListAddNode(obj) ==
    /\ list.made < MaxListNodes
    /\ ListBecomes("addNode", obj, addNode(list, obj), "none", FALSE)

ListNewNext ==
    \/ ListNext
    \/ ListAddNew
    \/ \E obj \in ListObjs : ListAddNode(obj)

SpecListNew == ListInit /\ [][ListNewNext]_vars

\* ---------------------------------------------- the machine of the registry
Types == 1..NumTypes

\* The registry and the heap as a call finds them.
RegCur ==
    [pools |-> pools, poolsMade |-> poolsMade, totalPooled |-> totalPooled,
     totalObjects |-> totalObjects, destroyed |-> destroyed,
     classOf |-> classOf, threw |-> "none", ret |-> Null, expands |-> <<>>,
     made |-> FALSE, hooks |-> 0, handed |-> 0]

\* The state a call on the registry leaves behind.
RegBecomes(g) ==
    /\ pools' = g.pools
    /\ poolsMade' = g.poolsMade
    /\ totalPooled' = g.totalPooled
    /\ totalObjects' = g.totalObjects
    /\ destroyed' = g.destroyed
    /\ classOf' = g.classOf
    /\ UNCHANGED <<freeList, usedList, initialSize, returnObj, held, op,
                   prev, scenario, listVars, concVars>>

\* Whether obj is on the used list of the pool of its class.
InUse(obj) ==
    /\ classOf[obj] \in DOMAIN pools
    /\ has(pools[classOf[obj]].usedList, obj)

\* The record of a call that ended, or reached onRelease(), as g.
RegCall(name, arg, g) ==
    [name |-> name, arg |-> arg, threw |-> g.threw, ret |-> g.ret,
     made |-> g.made, expands |-> g.expands, hooks |-> g.hooks,
     handed |-> g.handed,
     inUse |-> IF name = "obj.release" /\ arg # Null THEN InUse(arg)
               ELSE FALSE]

\* The number of objects acquire(T) is going to construct.
Needed(t) ==
    IF t \notin DOMAIN pools THEN INITIAL_POOL_SIZE
    ELSE IF pools[t].freeList.first = Null THEN grow(pools[t])
    ELSE 0

RegInit == PoolIdle /\ ListIdle /\ RegIdle /\ ConcIdle

\* A caller calls gamecore.Pool.acquire(T), or T.create().
RegAcquire(t) ==
    /\ pend = NoRelease
    /\ totalObjects + Needed(t) <= MaxRegObjs
    /\ LET g == staticAcquire(RegCur, t)
       IN  RegBecomes(g) /\ rop' = RegCall("acquire", t, g)
    /\ UNCHANGED <<direct, pend>>

\* A caller calls gamecore.Pool.release(obj).
RegRelease(obj) ==
    /\ pend = NoRelease
    /\ LET g == staticRelease(RegCur, obj)
       IN  RegBecomes(g) /\ rop' = RegCall("release", obj, g)
    /\ UNCHANGED <<direct, pend>>

\* A caller constructs an object itself: new T().
NewDirect(t) ==
    /\ pend = NoRelease
    /\ Cardinality(direct) < MaxDirect
    /\ totalObjects < MaxRegObjs
    /\ LET g == newPooled(RegCur, t)
       IN  /\ RegBecomes(g)
           /\ rop' = RegCall("new", t, g)
           /\ direct' = direct \cup {g.ret}
    /\ UNCHANGED pend

\* A caller calls obj.release(); the call runs up to its onRelease().
InstRelease(obj) ==
    /\ pend = NoRelease
    /\ LET r == instRelease(RegCur, obj, 1)
       IN  /\ RegBecomes(r.g)
           /\ rop' = [RegCall("obj.release", obj, r.g)
                         EXCEPT !.inUse = InUse(obj)]
           /\ pend' = IF r.at = 0 THEN NoRelease
                      ELSE [obj |-> obj, at |-> r.at]
    /\ UNCHANGED direct

\* onRelease() returns and the obj.release() that called it goes on.
HookReturns ==
    /\ pend # NoRelease
    /\ LET r == instRelease([RegCur EXCEPT !.hooks = rop.hooks,
                                           !.handed = rop.handed],
                            pend.obj, pend.at + 1)
       IN  /\ RegBecomes(r.g)
           /\ rop' = [rop EXCEPT !.threw = r.g.threw, !.hooks = r.g.hooks,
                                 !.handed = r.g.handed]
           /\ pend' = IF r.at = 0 THEN NoRelease
                      ELSE [obj |-> pend.obj, at |-> r.at]
    /\ UNCHANGED direct

RegNext ==
    \/ \E t \in Types : RegAcquire(t)
    \/ \E obj \in 1..totalObjects : RegRelease(obj)
    \/ \E t \in Types : NewDirect(t)
    \/ \E obj \in 1..totalObjects : InstRelease(obj)
    \/ HookReturns

SpecReg == RegInit /\ [][RegNext]_vars

\* ------------------------------ the machine of threads sharing one pool
\* A pool of any initial size, and threads that either take turns statement
\* by statement or run each acquire() to its end before another starts.
ConcInit ==
    /\ ListIdle /\ RegIdle
    /\ \E initial \in 0..MaxInitial :
        LET s == init(initial)
        IN  /\ freeList = s.freeList
            /\ usedList = s.usedList
            /\ returnObj = s.returnObj
            /\ totalPooled = s.totalPooled
            /\ totalObjects = s.totalObjects
            /\ destroyed = s.destroyed
            /\ initialSize = initial
    /\ held = {} /\ op = NoCall /\ prev = NoCall /\ scenario = OffScenario
    /\ pc = [th \in Threads |-> 0]
    /\ got = [th \in Threads |-> NoneGot]
    /\ atomic \in BOOLEAN

\* Thread th may run its next statement.
Turn(th) == atomic => \A o \in Threads \ {th} : pc[o] = 0

\* The statement of thread th that leaves the pool as s: on to statement
\* next, or out of the call when the statement threw or was the return.
Does(th, s, next) ==
    /\ Becomes(s)
    /\ IF s.threw # "none"
       THEN /\ pc' = [pc EXCEPT ![th] = 0]
            /\ got' = [got EXCEPT ![th].threw = s.threw, ![th].calls = @ + 1]
       ELSE IF next = 0
       THEN /\ pc' = [pc EXCEPT ![th] = 0]
            /\ got' = [got EXCEPT ![th].rets = Append(@, s.ret),
                                  ![th].calls = @ + 1]
       ELSE /\ pc' = [pc EXCEPT ![th] = next]
            /\ got' = got
    /\ UNCHANGED <<initialSize, held, op, prev, scenario, atomic, listVars,
                   regVars>>

\* Thread th enters acquire() and runs its first statement.
CheckExpand(th) ==
    /\ Turn(th) /\ pc[th] = 0
    /\ got[th].calls < MaxConcCalls /\ got[th].threw = "none"
    /\ Does(th, stmtCheck(Cur), 1)

ReadFirst(th) == Turn(th) /\ pc[th] = 1 /\ Does(th, stmtRead(Cur), 2)

RemoveFree(th) == Turn(th) /\ pc[th] = 2 /\ Does(th, stmtRemove(Cur), 3)

ClearFlag(th) == Turn(th) /\ pc[th] = 3 /\ Does(th, stmtFlag(Cur), 4)

AddUsed(th) == Turn(th) /\ pc[th] = 4 /\ Does(th, stmtAddUsed(Cur), 5)

Return(th) == Turn(th) /\ pc[th] = 5 /\ Does(th, stmtReturn(Cur), 0)

ConcNext ==
    \E th \in Threads :
        \/ CheckExpand(th)
        \/ ReadFirst(th)
        \/ RemoveFree(th)
        \/ ClearFlag(th)
        \/ AddUsed(th)
        \/ Return(th)

SpecConc == ConcInit /\ [][ConcNext]_vars

\* ================================================================= claims
\* The objects of list l, as the traversal from l.first meets them.
Members(l) == Range(Traverse(l))

\* The sequence seq with every occurrence of o deleted.
Without(seq, o) == SelectSeq(seq, LAMBDA x : x # o)

\* The objects the pool has constructed.
Constructed == DOMAIN destroyed

\* C1: after every completed expand, acquire and release (release on objects
\* of this pool, whether it succeeds or throws), every object the pool has
\* constructed is on exactly one of freeList and usedList, by the traversal
\* from first and by has() alike.
C1_ExactlyOneList ==
    \A obj \in Constructed :
        /\ (obj \in Members(freeList)) # (obj \in Members(usedList))
        /\ has(freeList, obj) <=> obj \in Members(freeList)
        /\ has(usedList, obj) <=> obj \in Members(usedList)

\* C1 witness: a release has thrown and a release has succeeded before it,
\* with objects on both lists.
C1_Witness ==
    /\ op.name = "release" /\ op.threw = "twice"
    /\ freeList.count >= 2 /\ usedList.count >= 2
    /\ \E obj \in Members(freeList) : destroyed[obj]

\* C2: the object acquire() returns was not on usedList right before the
\* call, is on usedList right after it, and is not held by any caller that
\* acquired it earlier and has not released it.
C2_SingleOwner ==
    [][(op'.name = "acquire" /\ op'.threw = "none") =>
           /\ op'.ret \notin Members(usedList)
           /\ ~has(usedList, op'.ret)
           /\ op'.ret \in Members(usedList')
           /\ op'.ret \notin held]_vars

\* C2 witness: acquire() has handed out a formerly released object while
\* other objects were in use.
C2_Witness ==
    /\ op.name = "acquire" /\ op.threw = "none"
    /\ ~op.preEmpty /\ op.preUsed >= 2
    /\ op.ret \in held /\ op.ret \in Members(usedList)
    /\ op.ret < totalObjects

\* C4: no expand, acquire or release step lowers size(): after every call,
\* size() is at least what it was when the call was made.
C4_SizeNeverShrinks == size(Cur) >= op.preFree + op.preUsed

\* C4 witness: a release and an expanding acquire behind it, size() kept.
C4_Witness ==
    /\ op.name = "release" /\ op.threw = "none"
    /\ size(Cur) = op.preFree + op.preUsed /\ size(Cur) >= 3
    /\ usedList.count >= 1

\* C5: acquire() on an empty free list with size() = s calls expand exactly
\* once, with ((s + 2) div 5) + 1, and size() = s + ((s + 2) div 5) + 1 on
\* return; the free list is non-empty after that expansion: the handout does
\* not fail and leaves one object fewer on it, and in every state with an
\* empty free list expand(((s + 2) div 5) + 1) leaves a non-null first.
C5_ExpandOnEmpty ==
    /\ (op.name = "acquire" /\ op.preEmpty) =>
           LET s == op.preFree + op.preUsed
               k == ((s + 2) \div 5) + 1
           IN  /\ op.expands = <<k>>
               /\ op.threw = "none"
               /\ freeList.count = op.preFree + k - 1
               /\ Len(Traverse(freeList)) = k - 1
               /\ size(Cur) = s + k
    /\ freeList.first = Null =>
           LET e == expand(Cur, ((size(Cur) + 2) \div 5) + 1)
           IN  /\ e.threw = "none"
               /\ e.freeList.first # Null
               /\ Traverse(e.freeList) # <<>>
               /\ acquire(Cur).expands = e.expands

\* C5 witness: acquire() found three objects, all in use, and expanded by 2.
C5_Witness ==
    /\ op.name = "acquire" /\ op.preEmpty
    /\ op.preUsed = 3 /\ op.expands = <<2>>

\* C6: in every reachable state acquire() returns an object the pool has
\* constructed and puts it on the used list; it throws nothing and returns
\* no null.  Every acquire() made did so too.
C6_AcquireProgress ==
    /\ LET s == acquire(Cur)
       IN  /\ s.threw = "none"
           /\ s.ret # Null
           /\ s.ret \in DOMAIN s.destroyed
           /\ s.ret \in Members(s.usedList)
    /\ op.name = "acquire" =>
           op.threw = "none" /\ op.ret # Null /\ op.ret \in Constructed

\* C6 witness: a pool constructed with initialSize 0 whose objects were all
\* in use has handed out one more.
C6_Witness ==
    /\ initialSize = 0
    /\ op.name = "acquire" /\ op.preEmpty /\ op.preUsed >= 1
    /\ op.ret \in Members(usedList)
    /\ totalPooled = usedList.count + freeList.count

\* x = acquire() was followed at once by release(x), and neither threw.
RoundTrip ==
    /\ op.name = "release" /\ op.threw = "none"
    /\ prev.name = "acquire" /\ prev.threw = "none"
    /\ op.arg = prev.ret

\* C7 as stated: the round trip leaves size(), freeList.count and
\* usedList.count as they were before the acquire.
C7_RoundTripAsStated ==
    RoundTrip =>
        /\ size(Cur) = prev.preFree + prev.preUsed
        /\ freeList.count = prev.preFree
        /\ usedList.count = prev.preUsed

\* C7 amended: the round trip leaves usedList.count as it was; it leaves
\* size() and freeList.count as they were when the free list was non-empty
\* before the acquire, and otherwise both have grown by the expansion
\* ((s + 2) div 5) + 1 of the size s before the acquire.
C7_RoundTrip ==
    RoundTrip =>
        LET s == prev.preFree + prev.preUsed
            k == IF prev.preEmpty THEN ((s + 2) \div 5) + 1 ELSE 0
        IN  /\ usedList.count = prev.preUsed
            /\ freeList.count = prev.preFree + k
            /\ size(Cur) = s + k
            /\ Len(Traverse(usedList)) = prev.preUsed
            /\ Len(Traverse(freeList)) = prev.preFree + k

\* C7 witness: a round trip from a state with free and used objects.
C7_Witness ==
    /\ RoundTrip
    /\ ~prev.preEmpty /\ prev.preUsed >= 1 /\ prev.preFree >= 2

\* The two counts of the pool.
Counts == <<freeList.count, usedList.count>>

\* C8: along the scenario (fresh pool of initial size 1, A = acquire(),
\* B = acquire(), release(A), release(B)) the counts (free, used) are (1,0),
\* (0,1), (0,2), (1,1), (2,0); the second acquire expands by 1 to size 2 and
\* B is not A.
C8_Scenario ==
    /\ scenario.step = 0 => Counts = <<1, 0>>
    /\ scenario.step = 1 =>
           /\ op.threw = "none" /\ op.expands = <<>>
           /\ scenario.A # Null /\ Members(usedList) = {scenario.A}
           /\ Counts = <<0, 1>>
    /\ scenario.step = 2 =>
           /\ op.threw = "none" /\ op.expands = <<1>> /\ size(Cur) = 2
           /\ scenario.B # Null /\ scenario.B # scenario.A
           /\ Traverse(usedList) = <<scenario.A, scenario.B>>
           /\ Counts = <<0, 2>>
    /\ scenario.step = 3 =>
           /\ op.threw = "none"
           /\ Traverse(freeList) = <<scenario.A>>
           /\ Traverse(usedList) = <<scenario.B>>
           /\ Counts = <<1, 1>>
    /\ scenario.step = 4 =>
           /\ op.threw = "none"
           /\ Traverse(freeList) = <<scenario.A, scenario.B>>
           /\ Traverse(usedList) = <<>>
           /\ Counts = <<2, 0>>

\* C8 witness: the scenario has run to its end.
C8_Witness == scenario.step = 4 /\ op.name = "release" /\ op.arg = scenario.B

\* C9: release(obj) of an object on the used list throws nothing, appends
\* obj to the tail of the free list, deletes obj alone from the used list
\* (the others keep their order), sets obj.destroyed and no other flag, and
\* moves the two counts by one.
C9_ReleaseMoves ==
    [][(op'.name = "release" /\ op'.arg \in Members(usedList)) =>
           /\ op'.threw = "none"
           /\ Traverse(freeList') = Append(Traverse(freeList), op'.arg)
           /\ Traverse(usedList') = Without(Traverse(usedList), op'.arg)
           /\ Len(Traverse(usedList')) = Len(Traverse(usedList)) - 1
           /\ destroyed' = [destroyed EXCEPT ![op'.arg] = TRUE]
           /\ freeList'.count = freeList.count + 1
           /\ usedList'.count = usedList.count - 1]_vars

\* C9 witness: an object was released from among three in use, onto a free
\* list that held others.
C9_Witness ==
    /\ op.name = "release" /\ op.threw = "none"
    /\ op.preUsed >= 3 /\ op.preFree >= 1
    /\ Traverse(freeList)[Len(Traverse(freeList))] = op.arg
    /\ destroyed[op.arg]

\* C10 as stated: release(obj) of an object that was released before and is
\* still on the free list completes without raising an error.
C10_DoubleReleaseSilent ==
    [][(op'.name = "release" /\ has(freeList, op'.arg) /\ destroyed[op'.arg])
           => op'.threw = "none"]_vars

\* The n objects constructed next, in the order of their construction.
Fresh(n) == [i \in 1..n |-> totalObjects + i]

\* C11: in every reachable state expand(n) throws nothing, leaves the free
\* list's traversal as it was followed by n objects not constructed before,
\* adds n to freeList.count and exactly n to totalPooled, and leaves the used
\* list and the destroyed flag of every existing object as they were; every
\* expand(n) call made added n to size().
C11_ExpandFrame ==
    /\ \A n \in 0..(MaxExpand + 1) :
           LET e == expand(Cur, n)
           IN  /\ e.threw = "none"
               /\ Traverse(e.freeList) = Traverse(freeList) \o Fresh(n)
               /\ Range(Fresh(n)) \cap Constructed = {}
               /\ Cardinality(Range(Fresh(n))) = n
               /\ e.freeList.count = freeList.count + n
               /\ e.totalPooled = totalPooled + n
               /\ e.usedList = usedList
               /\ \A obj \in Constructed : e.destroyed[obj] = destroyed[obj]
               /\ DOMAIN e.destroyed = Constructed \cup Range(Fresh(n))
    /\ op.name = "expand" =>
           /\ op.threw = "none"
           /\ freeList.count = op.preFree + op.arg
           /\ usedList.count = op.preUsed

\* C11 witness: expand(n), n >= 1, was called on a pool with free and used
\* objects.
C11_Witness ==
    /\ op.name = "expand" /\ op.arg >= 1
    /\ op.preFree >= 1 /\ op.preUsed >= 1
    /\ Len(Traverse(freeList)) = op.preFree + op.arg

\* Where a pool whose free list has the members f and whose used list has the
\* members u has object obj.
ObjState(f, u, obj) ==
    IF obj \in f /\ obj \notin u THEN "Free"
    ELSE IF obj \in u /\ obj \notin f THEN "Used"
    ELSE IF obj \in u THEN "Both"
    ELSE "Neither"

\* C16: every object is Free or Used in every state; a step leaves an object
\* as it was, except that the object acquire() returns goes from Free to Used
\* and the object passed to release goes from Used to Free; an object
\* constructed in the step ends it Free, or Used as the value acquire()
\* returns; expand changes no existing object; no object disappears.
C16_ObjectStateMachine ==
    [][LET f   == Members(freeList)
           u   == Members(usedList)
           f2  == Members(freeList')
           u2  == Members(usedList')
           fresh == (DOMAIN destroyed') \ Constructed
           taken == IF op'.name = "acquire" THEN {op'.ret} ELSE {}
           given == IF op'.name = "release" THEN {op'.arg} ELSE {}
       IN  /\ Constructed \subseteq DOMAIN destroyed'
           /\ f2 \cap u2 = {}
           /\ f2 \cup u2 = DOMAIN destroyed'
           /\ (f \cap u2) \subseteq taken
           /\ (u \cap f2) \subseteq given
           /\ (taken \cap Constructed) \subseteq (f \cap u2)
           /\ (given \cap u) \subseteq f2
           /\ fresh # {} => op'.name \in {"expand", "acquire"}
           /\ (fresh \cap u2) \subseteq taken
           /\ op'.name = "expand" => (f2 \cap Constructed) = f /\ u2 = u]_vars

\* C16 witness: an object constructed by an expansion has been handed out and
\* released, and is Free again beside a Used one.
C16_Witness ==
    /\ op.name = "release" /\ op.threw = "none" /\ op.preUsed >= 2
    /\ ObjState(Members(freeList), Members(usedList), op.arg) = "Free"
    /\ \E obj \in Constructed :
           ObjState(Members(freeList), Members(usedList), obj) = "Used"
    /\ totalObjects > initialSize

\* C18: list.add(obj) of an object whose cached node is not free throws the
\* "twice" error and leaves count, first, last and the traversal from first
\* as they were.
C18_DuplicateAddThrows ==
    [][(lop'.name = "add" /\ has(list, lop'.arg))
           => /\ lop'.threw = "twice"
              /\ list'.count = list.count
              /\ list'.first = list.first
              /\ list'.last = list.last
              /\ Traverse(list') = Traverse(list)]_vars

\* A list of two members has just refused the second add of one of them.
C18_Witness ==
    /\ lop.name = "add" /\ lop.threw = "twice"
    /\ has(list, lop.arg)
    /\ Len(Traverse(list)) >= 2

\* C19 as stated: list.add(obj) of an object that is already a member returns
\* silently, throwing nothing and leaving the list as it was.
C19_DuplicateAddSilent ==
    [][(lop'.name = "add" /\ has(list, lop'.arg))
           => (lop'.threw = "none" /\ list' = list)]_vars

\* C20 as stated: list.add(obj) of an object that is not a member throws
\* nothing, leaves the traversal from first as it was followed by obj, makes
\* obj's node the last node and raises count by one.
C20_AddAppends ==
    [][(lop'.name = "add" /\ ~has(list, lop'.arg))
           => /\ lop'.threw = "none"
              /\ Traverse(list') = Append(Traverse(list), lop'.arg)
              /\ list'.last = getUniqueId(lop'.arg)
              /\ list'.count = list.count + 1]_vars

\* The sum of size() over the pools of the classes ts in the registry P.
RECURSIVE SumSizes(_, _)
SumSizes(P, ts) ==
    IF ts = {} THEN 0
    ELSE LET t == CHOOSE x \in ts : TRUE
         IN  size(P[t]) + SumSizes(P, ts \ {t})

\* No object of D, the objects constructed by the callers themselves, has
\* been released into a pool of P: every release that reached a pool was of
\* an object obtained from acquire.
OnlyAcquired(P, D) ==
    \A o \in D : \A t \in DOMAIN P :
        getNode(P[t].freeList, o) = Null /\ getNode(P[t].usedList, o) = Null

\* C12: no call on the registry or on a pooled object lowers totalPooled;
\* after it totalPooled is the number of objects the pools constructed, and,
\* when only objects obtained from acquire have been released, the sum of
\* size() over the registered pools.
C12_TotalPooled ==
    [][/\ totalPooled' >= totalPooled
       /\ totalPooled' = totalObjects' - Cardinality(direct')
       /\ OnlyAcquired(pools', direct')
             => totalPooled' = SumSizes(pools', DOMAIN pools')]_vars

\* Two pools with an object each, one of them just released.
C12_Witness ==
    /\ rop.name = "release" /\ rop.threw = "none"
    /\ Cardinality(DOMAIN pools) = 2
    /\ OnlyAcquired(pools, direct)
    /\ totalPooled = 2
    /\ SumSizes(pools, DOMAIN pools) = 2

\* C13: a Pool is constructed only by acquire(T) for a class T that has none,
\* with INITIAL_POOL_SIZE objects put on its free list by the one expand call
\* made, one of which is handed out; an acquire(T) for a class that has a
\* Pool constructs none; every registered class keeps the Pool it has, and
\* the Pools ever constructed are as many as the registered classes.
C13_OnePoolPerType ==
    [][/\ \A t \in DOMAIN pools :
            t \in DOMAIN pools' /\ pools'[t].id = pools[t].id
       /\ poolsMade' = Cardinality(DOMAIN pools')
       /\ poolsMade' # poolsMade
             => rop'.name = "acquire" /\ rop'.arg \notin DOMAIN pools
       /\ (rop'.name = "acquire" /\ rop'.arg \notin DOMAIN pools)
             => /\ rop'.made
                /\ poolsMade' = poolsMade + 1
                /\ DOMAIN pools' = DOMAIN pools \cup {rop'.arg}
                /\ rop'.expands = <<INITIAL_POOL_SIZE>>
                /\ pools'[rop'.arg].initialSize = INITIAL_POOL_SIZE
                /\ size(pools'[rop'.arg]) = INITIAL_POOL_SIZE
                /\ has(pools'[rop'.arg].usedList, rop'.ret)
       /\ (rop'.name = "acquire" /\ rop'.arg \in DOMAIN pools)
             => ~rop'.made /\ poolsMade' = poolsMade]_vars

\* Both classes have their Pool, and an acquire has just used an existing one.
C13_Witness ==
    /\ rop.name = "acquire" /\ ~rop.made /\ rop.threw = "none"
    /\ poolsMade = 2
    /\ DOMAIN pools = Types

\* C14: gamecore.Pool.release(obj), called by a caller or by obj.release(),
\* for an object whose class has no registered pool throws the "no pool
\* exists" error and leaves the registry, every pool's lists, totalPooled
\* and every destroyed flag as they were.
C14_UnknownPool ==
    [][(/\ \/ rop'.name = "release"
           \/ rop'.name = "obj.release" /\ rop'.handed = 1 /\ pend' = NoRelease
        /\ classOf[rop'.arg] \notin DOMAIN pools)
           => /\ rop'.threw = "nopool"
              /\ pools' = pools
              /\ poolsMade' = poolsMade
              /\ totalPooled' = totalPooled
              /\ destroyed' = destroyed]_vars

\* A release has failed for want of a pool while another class has one with
\* an object in use.
C14_Witness ==
    /\ rop.name = "release" /\ rop.threw = "nopool"
    /\ rop.arg \in direct
    /\ \E t \in DOMAIN pools : pools[t].usedList.count >= 1
    /\ ~destroyed[rop.arg]

\* C15: while the onRelease() of an obj.release() runs, it is the only run
\* of the hook in that call and Pool.release(obj) has not been called; an
\* object that was in use when the call began is still on the used list, not
\* on the free list, with destroyed false.  Once the call has ended the hook
\* has run once and Pool.release(obj) has been called once, after it, and an
\* object that was in use is on the free list with destroyed true.
C15_ReleaseOrder ==
    /\ pend # NoRelease
          => /\ rop.name = "obj.release" /\ rop.arg = pend.obj
             /\ rop.hooks = 1 /\ rop.handed = 0
             /\ rop.inUse
                   => /\ has(pools[classOf[pend.obj]].usedList, pend.obj)
                      /\ ~has(pools[classOf[pend.obj]].freeList, pend.obj)
                      /\ ~destroyed[pend.obj]
    /\ (rop.name = "obj.release" /\ pend = NoRelease)
          => /\ rop.hooks = 1 /\ rop.handed = 1
             /\ rop.inUse
                   => /\ rop.threw = "none"
                      /\ has(pools[classOf[rop.arg]].freeList, rop.arg)
                      /\ ~has(pools[classOf[rop.arg]].usedList, rop.arg)
                      /\ destroyed[rop.arg]

\* The hook of an object in use is running, with another pool registered.
C15_Witness ==
    /\ pend # NoRelease
    /\ rop.inUse
    /\ has(pools[classOf[pend.obj]].usedList, pend.obj)
    /\ poolsMade = 2

\* The objects acquire() has returned to thread th.
Handed(th) == Range(got[th].rets)

\* The same object has been handed to two callers.
SameToBoth ==
    \E a, b \in Threads : a # b /\ Handed(a) \cap Handed(b) # {}

\* No call is under way and an object of the pool is in neither list.
InNeitherList ==
    /\ \A th \in Threads : pc[th] = 0
    /\ \E o \in 1..totalObjects : ~has(freeList, o) /\ ~has(usedList, o)

\* An acquire() has raised the duplicate-add error.
RaisedTwice == \E th \in Threads : got[th].threw = "twice"

BadState == SameToBoth \/ InNeitherList \/ RaisedTwice

\* C17: when every acquire() runs to its end before another starts, no state
\* is reached in which one object was handed to two callers, an object is in
\* neither list, or a duplicate-add error was raised; such a state is
\* reached when the statements of two acquire() calls interleave.
C17_AtomicIsSafe == atomic => ~BadState

\* Interleaved calls have ended with one object handed to both callers.
C17_Witness ==
    /\ ~atomic
    /\ SameToBoth
    /\ \A th \in Threads : pc[th] = 0

\* C21: list.remove(obj) of an object that has no node in the list, or whose
\* node is marked free, returns false, throws nothing and leaves count,
\* first, last and the traversal from first as they were.
C21_RemoveIdempotent ==
    [][(lop'.name = "remove" /\ ~has(list, lop'.arg))
           => /\ lop'.ret = FALSE
              /\ lop'.threw = "none"
              /\ list'.count = list.count
              /\ list'.first = list.first
              /\ list'.last = list.last
              /\ Traverse(list') = Traverse(list)]_vars

\* An object whose node was freed before has been removed again from a list
\* that has two members.
C21_Witness ==
    /\ lop.name = "remove" /\ lop.ret = FALSE
    /\ getNode(list, lop.arg) # Null
    /\ list.nodes[getNode(list, lop.arg)].free
    /\ Len(Traverse(list)) >= 2
    /\ list.count >= 2

\* C22 as stated: list.remove(obj) of an object whose node is not free
\* returns true, lowers count by one and leaves the traversal from first as
\* it was with obj deleted; first and last are its two ends afterwards.
C22_RemoveMember ==
    [][(lop'.name = "remove" /\ has(list, lop'.arg))
           => /\ lop'.ret = TRUE
              /\ list'.count = list.count - 1
              /\ Traverse(list') = Without(Traverse(list), lop'.arg)
              /\ LET after == Traverse(list')
                 IN  IF after = <<>>
                     THEN list'.first = Null /\ list'.last = Null
                     ELSE /\ list'.first = getUniqueId(after[1])
                          /\ list'.last = getUniqueId(after[Len(after)])]_vars

\* C23 as stated: has(obj) is true exactly when the traversal from first
\* reaches a node of obj that is not marked free.
C23_HasIsMembership ==
    \A obj \in ListObjs :
        has(list, obj) <=>
            /\ obj \in Members(list)
            /\ ~list.nodes[getNode(list, obj)].free

\* C24: list.remove(obj) called right after a list.add(obj) that threw
\* nothing leaves count and the traversal from first as the add found them,
\* and has(obj) false.
C24_AddRemoveRoundTrip ==
    [][(/\ lop.name = "add" /\ lop.threw = "none"
        /\ lop'.name = "remove" /\ lop'.arg = lop.arg)
           => /\ list'.count = lop.found.count
              /\ ~has(list', lop'.arg)
              /\ Traverse(list') = Traverse(lop.found)]_vars

\* The last object of the traversal from first, Null when it is empty.
Tailmost(l) ==
    LET order == Traverse(l)
    IN  IF order = <<>> THEN Null ELSE order[Len(order)]

\* C25: on a list whose traversal has at least two objects, moveUp(obj) of
\* the object at first and moveDown(obj) of the last object of the traversal
\* throw nothing and leave first, last, count and the traversal as they were.
C25_BoundaryNoOp ==
    [][(/\ Len(Traverse(list)) >= 2
        /\ \/ lop'.name = "moveUp" /\ list.first = getUniqueId(lop'.arg)
           \/ lop'.name = "moveDown" /\ Tailmost(list) = lop'.arg
        /\ has(list, lop'.arg))
           => /\ lop'.threw = "none"
              /\ list'.first = list.first
              /\ list'.last = list.last
              /\ list'.count = list.count
              /\ Traverse(list') = Traverse(list)]_vars

\* The nodes the iteration from l.first visits, in order.
RECURSIVE WalkNodes(_, _, _)
WalkNodes(map, node, fuel) ==
    IF node = Null \/ fuel = 0 THEN <<>>
    ELSE <<node>> \o WalkNodes(map, map[node].nextLinked, fuel - 1)

Nodes(l) ==
    WalkNodes(l.nodes, l.first, Cardinality(DOMAIN l.nodes) + 1)

\* The list l is consistently linked: the node at first has no predecessor,
\* the node at last has no successor and ends the iteration from first, and
\* each node the iteration visits is the prevLinked of the node after it.
LinkConsistent(l) ==
    LET ns == Nodes(l)
        m  == l.nodes
    IN  /\ ~Cyclic(l)
        /\ l.first # Null => m[l.first].prevLinked = Null
        /\ l.last # Null =>
               /\ m[l.last].nextLinked = Null
               /\ ns # <<>>
               /\ ns[Len(ns)] = l.last
        /\ ns # <<>> => l.last = ns[Len(ns)]
        /\ \A i \in 1..(Len(ns) - 1) : m[ns[i + 1]].prevLinked = ns[i]

\* C30 as stated: the list is consistently linked in every state reached by
\* add, remove, moveUp, moveDown, sort and clear.
C30_LinkConsistency == LinkConsistent(list)

\* The sequence seq with the objects at positions i and i + 1 exchanged.
Swapped(seq, i) ==
    [k \in DOMAIN seq |->
        IF k = i THEN seq[i + 1] ELSE IF k = i + 1 THEN seq[i] ELSE seq[k]]

\* The position of obj in seq, 0 when it is not there.
IndexOf(seq, obj) ==
    IF \E k \in DOMAIN seq : seq[k] = obj
    THEN CHOOSE k \in DOMAIN seq : seq[k] = obj /\ \A j \in 1..(k - 1) : seq[j] # obj
    ELSE 0

\* first and last of l name the two ends of the traversal from first.
EndsAt(l) ==
    LET order == Traverse(l)
    IN  order # <<>> /\ l.first = getUniqueId(order[1])
                     /\ l.last = getUniqueId(order[Len(order)])

\* C26 as stated: moveUp(obj) of a member that the traversal reaches after
\* its first place exchanges it with the object before it, moveDown(obj) of
\* a member that it reaches before its last place exchanges it with the
\* object after it; nothing is thrown, every other place and count are as
\* before, and first and last name the new ends.
C26_MoveSwaps ==
    [][LET order == Traverse(list)
           i     == IndexOf(order, lop'.arg)
       IN  /\ (lop'.name = "moveUp" /\ has(list, lop'.arg) /\ i > 1)
                 => /\ lop'.threw = "none"
                    /\ Traverse(list') = Swapped(order, i - 1)
                    /\ list'.count = list.count
                    /\ EndsAt(list')
           /\ (lop'.name = "moveDown" /\ has(list, lop'.arg)
                /\ i >= 1 /\ i < Len(order))
                 => /\ lop'.threw = "none"
                    /\ Traverse(list') = Swapped(order, i)
                    /\ list'.count = list.count
                    /\ EndsAt(list')]_vars

\* The objects has() answers true for.
HasSet(l) == {obj \in ListObjs : has(l, obj)}

\* seq is arranged in the order of the comparator cmp.
InOrder(cmp, seq) ==
    \A i \in DOMAIN seq : \A j \in DOMAIN seq :
        i < j => compare(cmp, seq[i], seq[j]) <= 0

\* C27 as stated: sort(compare) throws nothing, the traversal afterwards
\* holds exactly the members of before, each once, in comparator order, and
\* count and the membership set are as before.
C27_SortPermutes ==
    [][lop'.name = "sort"
         => /\ lop'.threw = "none"
            /\ InOrder(lop'.arg, Traverse(list'))
            /\ Range(Traverse(list')) = HasSet(list)
            /\ Len(Traverse(list')) = Cardinality(HasSet(list))
            /\ list'.count = list.count
            /\ HasSet(list') = HasSet(list)]_vars

\* Every arrangement of the objects of S, each once.
Arrangements(S) ==
    {seq \in [1..Cardinality(S) -> S] :
        \A i \in DOMAIN seq : \A j \in DOMAIN seq : i # j => seq[i] # seq[j]}

\* C28 as stated: after clear() count is 0, first is null, has() is false
\* for every former member, and adding the former members again, in any
\* order, throws nothing and gives a list of exactly them in that order.
C28_ClearThenReAdd ==
    [][lop'.name = "clear"
         => /\ lop'.threw = "none"
            /\ list'.count = 0
            /\ list'.first = Null
            /\ HasSet(list') = {}
            /\ \A seq \in Arrangements(HasSet(list)) :
                  LET r == AddAll(list', seq, 1)
                  IN  /\ r.threw = "none"
                      /\ Traverse(r.list) = seq
                      /\ r.list.count = Len(seq)
                      /\ HasSet(r.list) = HasSet(list)]_vars

\* The objects a call constructed, in the order expand() put them on the
\* free list.
JustConstructed == [k \in 1..(totalObjects' - totalObjects) |-> totalObjects + k]

\* C29: acquire() returns the object at the head of the free list (after the
\* expansion, when the list was empty), takes it off the free list and puts
\* it at the tail of the used list; release(obj) puts obj at the tail of the
\* free list and takes it off the used list. The free list is therefore a
\* queue: without expansion acquire returns the object freed longest ago.
C29_FifoReuse ==
    [][/\ (op'.name = "acquire" /\ op'.threw = "none")
            => /\ <<op'.ret>> \o Traverse(freeList')
                    = Traverse(freeList) \o JustConstructed
               /\ Traverse(usedList') = Append(Traverse(usedList), op'.ret)
               /\ (~op'.preEmpty => op'.ret = Head(Traverse(freeList)))
       /\ (op'.name = "release" /\ op'.threw = "none")
            => /\ Traverse(freeList') = Append(Traverse(freeList), op'.arg)
               /\ Traverse(usedList') = Without(Traverse(usedList), op'.arg)]_vars

\* An acquire that needed no expansion has returned an object while one
\* constructed earlier stayed on the free list: the one returned was freed
\* before it.
C29_Witness ==
    /\ op.name = "acquire" /\ op.threw = "none" /\ ~op.preEmpty
    /\ \E o \in Range(Traverse(freeList)) : o < op.ret
    /\ Traverse(usedList) = <<op.ret>>

\* The cached nodes of l whose free flag is false.
LiveNodes(l) ==
    {l.objToNodeMap[k] : k \in {j \in DOMAIN l.objToNodeMap :
                                    ~l.nodes[l.objToNodeMap[j]].free}}

\* C31 as stated: count is the number of nodes the iteration from first
\* visits, and the nodes it visits are exactly the cached nodes that are not
\* marked free.
C31_CountAndLiveNodes ==
    /\ ~Cyclic(list)
    /\ list.count = Len(Nodes(list))
    /\ Range(Nodes(list)) = LiveNodes(list)

\* C32 as stated: following nextLinked from first always reaches null, and
\* no call is caught in an iteration that does not end.
C32_NeverCyclic == ~Cyclic(list) /\ lop.threw # "hang"

\* C33: first is never non-null while last is null, and add never throws
\* "no last in the list".
C33_NoLastUnreachable ==
    /\ ~(list.first # Null /\ list.last = Null)
    /\ lop.threw # "nolast"

\* C34 as stated: first == null, last == null and count == 0 are all true or
\* all false.
C34_EmptinessAgrees ==
    /\ (list.first = Null) <=> (list.last = Null)
    /\ (list.first = Null) <=> (list.count = 0)

\* C35 as stated: the list caches one node per object identifier, holding
\* that object; it has constructed as many nodes as it caches, one for each
\* distinct object ever added; the cache never loses a node, and a call
\* constructs a node only when it is add(obj) of an object that has none, so
\* the add of an object added before reuses its node.
C35_NodesCachedAndReused ==
    [][LET map == list'.objToNodeMap
       IN  /\ \A k \in DOMAIN map :
                getUniqueId(list'.nodes[map[k]].obj) = k
           /\ DOMAIN map = {getUniqueId(obj) : obj \in lop'.ever}
           /\ list'.made = Cardinality(lop'.ever)
           /\ DOMAIN list.objToNodeMap \subseteq DOMAIN map
           /\ list'.made =
                  IF lop'.name = "add" /\ getNode(list, lop'.arg) = Null
                  THEN list.made + 1 ELSE list.made]_vars

\* C36: release(obj) of an object that is on the free list throws the
\* "twice" error of freeList.add and leaves the free list, the used list,
\* their counts, size(), totalPooled and every destroyed flag as they were.
C36_FailedReleaseChangesNothing ==
    [][(op'.name = "release" /\ has(freeList, op'.arg))
          => /\ op'.threw = "twice"
             /\ freeList' = freeList
             /\ usedList' = usedList
             /\ freeList'.count = freeList.count
             /\ usedList'.count = usedList.count
             /\ size([freeList |-> freeList', usedList |-> usedList'])
                    = size(Cur)
             /\ totalPooled' = totalPooled
             /\ destroyed' = destroyed]_vars

\* A release has just been refused for an object that was never acquired
\* (its destroyed flag is still the constructor's false), while another
\* object is in use.
C36_Witness ==
    /\ op.name = "release" /\ op.threw = "twice"
    /\ has(freeList, op.arg)
    /\ destroyed[op.arg] = FALSE
    /\ usedList.count >= 1

\* C37: every object on the used list has destroyed == false; an object on
\* the free list has destroyed == true when release() put it there, and the
\* constructor's false when it has never been acquired.
C37_DestroyedTracksState ==
    /\ \A obj \in Members(usedList) : destroyed[obj] = FALSE
    /\ \A obj \in Members(freeList) :
          destroyed[obj] = (obj \in op.returned)
    /\ op.returned \subseteq Members(freeList)

\* The free list holds an object that release() put there and one that was
\* never acquired, while another object is in use.
C37_Witness ==
    /\ \E obj \in Members(freeList) : destroyed[obj] = TRUE /\ obj \in op.returned
    /\ \E obj \in Members(freeList) : destroyed[obj] = FALSE
    /\ usedList.count >= 1
    /\ op.name = "release" /\ op.threw = "none"

\* The class a registry call works for: the argument of acquire(T), the
\* class of the object of a release; none for other steps.
CallType ==
    IF rop'.name = "acquire" THEN rop'.arg
    ELSE IF rop'.name \in {"release", "obj.release"} THEN classOf[rop'.arg]
    ELSE Null

\* C38: a registry acquire(T), and a release of an object of class T by
\* Pool.release(obj) or obj.release(), leave the free list, the used list
\* and size() of the pool of every other class as they were; the objects on
\* the two lists of a class's pool are all of that class.
C38_PoolsIsolated ==
    [][/\ \A u \in DOMAIN pools :
            u # CallType
               => /\ u \in DOMAIN pools'
                  /\ pools'[u].freeList = pools[u].freeList
                  /\ pools'[u].usedList = pools[u].usedList
                  /\ size(pools'[u]) = size(pools[u])
       /\ \A u \in DOMAIN pools' :
            \A obj \in Members(pools'[u].freeList)
                        \cup Members(pools'[u].usedList) :
                classOf'[obj] = u]_vars

\* Both classes have a pool; an object of one class has just been released
\* while an object of the other is in use.
C38_Witness ==
    /\ rop.name = "release" /\ rop.threw = "none"
    /\ DOMAIN pools = Types
    /\ \E u \in Types :
          /\ u # classOf[rop.arg]
          /\ pools[u].usedList.count = 1
          /\ size(pools[u]) = 1
    /\ has(pools[classOf[rop.arg]].freeList, rop.arg)

\* C39 as stated: no release changes size() of a pool, also not the release
\* of an object of the pool's class that a caller constructed itself, and
\* an acquire changes it only when it found the free list empty.
C39_SizeOnlyByExpand ==
    [][\A u \in DOMAIN pools :
          /\ u \in DOMAIN pools'
          /\ size(pools'[u]) # size(pools[u])
                => /\ rop'.name = "acquire"
                   /\ rop'.arg = u
                   /\ pools[u].freeList.first = Null]_vars

====
